---- MODULE Spec2Model ----
(***************************************************************************)
(* A state-machine model of app.py, the Flask movie-discovery application. *)
(*                                                                         *)
(* One browser session is modelled.  Every route handler is one action:    *)
(* it reads the session cookie, talks to the metadata API (tmdb_get) and   *)
(* to the text-generation API (ask_claude), and ends with a response.      *)
(* The session that the next request sees is the cookie Flask wrote at the *)
(* end of the previous one (save_session).                                 *)
(*                                                                         *)
(* Encoding of Python values:                                              *)
(*   - a dict (JSON object) is a function whose DOMAIN is its set of keys; *)
(*   - a list is a sequence;                                               *)
(*   - text that is only compared for order (title, release_date) is an    *)
(*     integer rank, '' being rank EmptyStr, below every other text;       *)
(*   - text whose characters matter (q, the refined terms) is a sequence   *)
(*     of one-character strings;                                           *)
(*   - None is the integer None, which no rank or number equals.           *)
(***************************************************************************)
EXTENDS Integers, Sequences, FiniteSets, TLC

VARIABLES
    session,      \* the session cookie: present, watchlist_ids, watchlist_movies
    before,       \* the session cookie the last request started from
    request,      \* the last request: route and parameters
    upstream,     \* the metadata API's outcomes consumed by the last request
    claude,       \* the text-generation outcome consumed by the last request
    response,     \* the last request's response
    tmdb_calls,   \* the metadata calls the last request issued, in order
    claude_calls, \* the number of text-generation calls the last request issued
    added,        \* the ids in the order of their latest completed add
    random        \* what the random module gave the last request

vars == <<session, before, request, upstream, claude, response,
          tmdb_calls, claude_calls, added, random>>

---------------------------------------------------------------------------
(* Bounds of the model. *)

MaxId == 2        \* movie ids are 1..MaxId
MaxLen == 2       \* texts (q, refined terms) have at most MaxLen characters
MaxResults == 2   \* an upstream result list has at most MaxResults movies

Ids == 1..MaxId

---------------------------------------------------------------------------
(* Python values. *)

None == -1
EmptyStr == 0

Range(l) == {l[i] : i \in 1..Len(l)}

\* 'k' in d
Has(d, k) == k \in DOMAIN d

\* d.get(k, default)
Get(d, k, default) == IF k \in DOMAIN d THEN d[k] ELSE default

\* bool(d) of a dict: {} is falsy
Truthy(d) == DOMAIN d # {}

\* {}
EmptyObject == [k \in {} |-> 0]

\* l.index(x): position of the first occurrence
IndexOf(l, x) == CHOOSE i \in 1..Len(l) : l[i] = x /\ \A j \in 1..(i - 1) : l[j] # x

\* l.pop(idx) leaves l without position idx
Pop(l, i) == SubSeq(l, 1, i - 1) \o SubSeq(l, i + 1, Len(l))

\* the dict with the keys ks of full
Obj(ks, full) == [k \in ks |-> full[k]]

---------------------------------------------------------------------------
(* tmdb_get: the parsed JSON on success, {} on every failure. *)

FailureKinds == {"ConnectionError", "Timeout", "HTTPError", "Exception"}

Ok(body) == [kind |-> "ok", body |-> body]
Failed(k) == [kind |-> k, body |-> EmptyObject]
Outcomes(bodies) == {Ok(b) : b \in bodies} \cup {Failed(k) : k \in FailureKinds}

tmdb_get(outcome) == IF outcome.kind = "ok" THEN outcome.body ELSE EmptyObject

\* the call a handler issues: endpoint and the parameters it puts in the URL
Call(path, params) == [path |-> path, params |-> params]

---------------------------------------------------------------------------
(* Responses. *)

NoResponse ==
    [kind |-> "none", status |-> 0, location |-> "", template |-> "",
     error |-> "", raised |-> "", movies |-> <<>>, watchlist_ids |-> <<>>,
     current_page |-> 0, total_pages |-> 0, refined |-> <<>>,
     data |-> EmptyObject, ai |-> EmptyObject]

\* redirect(location)
Redirect(location) ==
    [NoResponse EXCEPT !.kind = "redirect", !.status = 302, !.location = location]

\* render_template(template, movies=..., watchlist_ids=...)
Render(template, movies, ids) ==
    [NoResponse EXCEPT !.kind = "render", !.status = 200, !.template = template,
                       !.movies = movies, !.watchlist_ids = ids]

\* render_template('error.html', error=...) from a handler's own except clause
ErrorView(message) ==
    [NoResponse EXCEPT !.kind = "render", !.status = 200,
                       !.template = "error.html", !.error = message]

\* the view with more template variables than movies and watchlist_ids:
\* data holds the ones taken from the metadata API, ai the generated texts
RenderWith(template, movies, ids, data, ai) ==
    [Render(template, movies, ids) EXCEPT !.data = data, !.ai = ai]

\* jsonify(body), status
Json(status, body) ==
    [NoResponse EXCEPT !.kind = "json", !.status = status, !.data = body]

\* jsonify({'error': message}), status
JsonError(status, message) ==
    [NoResponse EXCEPT !.kind = "json", !.status = status, !.error = message]

\* an exception leaves the handler: Flask answers through the 500 handler
server_error(exception) ==
    [NoResponse EXCEPT !.kind = "error", !.status = 500,
                       !.template = "error.html",
                       !.error = "Server error (500). Please try again.",
                       !.raised = exception]

---------------------------------------------------------------------------
(* The session.  `present` is 'watchlist_ids' in session; the two keys are *)
(* always set together.  A handler works on its own copy; the copy becomes *)
(* the cookie only when session.modified is set, which item assignment and *)
(* the explicit session.modified = True do and list.append/pop do not.     *)

NoWatchlist == [present |-> FALSE, watchlist_ids |-> <<>>, watchlist_movies |-> <<>>]
EmptyWatchlist == [present |-> TRUE, watchlist_ids |-> <<>>, watchlist_movies |-> <<>>]

\* session.get('watchlist_ids', []) / session.get('watchlist_movies', [])
SessionIds(s) == IF s.present THEN s.watchlist_ids ELSE <<>>
SessionMovies(s) == IF s.present THEN s.watchlist_movies ELSE <<>>

\* what a handler hands back: its copy of the session, session.modified,
\* the response, the metadata calls it issued and the number of
\* text-generation calls it issued
Result(s, modified, resp, calls) ==
    [session |-> s, modified |-> modified, response |-> resp, calls |-> calls,
     claude_calls |-> 0]

\* the cookie after the request
save_session(old, new, modified) == IF modified THEN new ELSE old

---------------------------------------------------------------------------
(* The records the metadata API answers /movie/{id} with.  Any key may be  *)
(* missing from an answer; the sets below say which keys the model lets be *)
(* missing and which values it lets the others take.                       *)

GenreOk == [id |-> 28, name |-> 1]
GenreNoId == [name |-> 1]
GenreLists == {<<GenreOk>>, <<GenreNoId>>}

AlwaysKeys == {"title", "poster_path", "vote_average", "release_date", "overview"}

\* answers whose id may be missing or another movie's, and whose genres may
\* be missing or hold a genre without an id
CoreBodies ==
    { Obj(AlwaysKeys \cup ks,
          [id |-> i, title |-> 1, poster_path |-> 1, vote_average |-> 6,
           release_date |-> 1999, overview |-> 1, genres |-> g]) :
        ks \in SUBSET {"id", "genres"}, i \in Ids, g \in GenreLists }

\* answers for the movie asked for, whose title, vote_average and
\* release_date may be missing
SortableBodies ==
    { Obj({"id", "poster_path", "overview", "genres"} \cup ks,
          [id |-> i, title |-> t, poster_path |-> 1, vote_average |-> v,
           release_date |-> 1999, overview |-> 1, genres |-> <<GenreOk>>]) :
        ks \in SUBSET {"title", "vote_average", "release_date"},
        i \in Ids, t \in {1, 2}, v \in {6, 8} }

\* request.referrer: None (here "") or the page the link was on
Referrers == {"", "/movie"}

\* request.referrer or '/'
Back(referrer) == IF referrer = "" THEN "/" ELSE referrer

---------------------------------------------------------------------------
(* /watchlist/add/<movie_id> *)

\* the membership test made on the entry list: a dict never equals an id
InWatchlistOfEntries(movie_id, ids) == FALSE

\* movie_id in session['watchlist_ids']
InWatchlist(movie_id, ids) == movie_id \in Range(ids)

\* the test without its 'id' in movie half
HasIdUnchecked(movie) == Truthy(movie)

\* movie and 'id' in movie
HasId(movie) == Truthy(movie) /\ Has(movie, "id")

\* [g['id'] for g in movie.get('genres', [])] raises KeyError on a genre
\* without an id
EntryRaises(movie) ==
    LET genres == Get(movie, "genres", <<>>)
    IN  \E i \in 1..Len(genres) : ~Has(genres[i], "id")

\* the dict appended to session['watchlist_movies']
Entry(movie) ==
    LET genres == Get(movie, "genres", <<>>)
    IN  [id           |-> Get(movie, "id", None),
         title        |-> Get(movie, "title", None),
         poster_path  |-> Get(movie, "poster_path", None),
         vote_average |-> Get(movie, "vote_average", None),
         release_date |-> Get(movie, "release_date", EmptyStr),
         overview     |-> Get(movie, "overview", EmptyStr),
         genre_ids    |-> [i \in 1..Len(genres) |-> genres[i].id]]

add_watchlist(s, movie_id, referrer, outcome) ==
    LET s1   == IF s.present THEN s ELSE EmptyWatchlist
        set1 == ~s.present                      \* the two item assignments
        call == <<Call("/movie/{id}", [id |-> movie_id])>>
        movie == tmdb_get(outcome)
    IN  IF InWatchlist(movie_id, s1.watchlist_ids)
        THEN Result(s1, set1, Redirect(Back(referrer)), <<>>)
        ELSE IF ~HasId(movie)
        THEN Result(s1, set1, Redirect(Back(referrer)), call)
        ELSE LET s2 == [s1 EXCEPT !.watchlist_ids = Append(@, movie_id)]
             IN  IF EntryRaises(movie)
                 THEN Result(s2, set1, server_error("KeyError"), call)
                 ELSE Result([s2 EXCEPT !.watchlist_movies = Append(@, Entry(movie))],
                             TRUE, Redirect(Back(referrer)), call)

---------------------------------------------------------------------------
(* /watchlist/remove/<movie_id> *)

remove_watchlist(s, movie_id, referrer) ==
    IF ~s.present \/ ~InWatchlist(movie_id, s.watchlist_ids)
    THEN Result(s, FALSE, Redirect(Back(referrer)), <<>>)
    ELSE LET idx == IndexOf(s.watchlist_ids, movie_id)
             ids == Pop(s.watchlist_ids, idx)
         IN  IF idx > Len(s.watchlist_movies)
             THEN \* movies.pop(idx): IndexError, before the item assignments
                  Result([s EXCEPT !.watchlist_ids = ids], FALSE,
                         server_error("IndexError"), <<>>)
             ELSE Result([s EXCEPT !.watchlist_ids = ids,
                                   !.watchlist_movies = Pop(@, idx)],
                         TRUE, Redirect(Back(referrer)), <<>>)

---------------------------------------------------------------------------
(* /watchlist/clear *)

clear_watchlist(s) == Result(EmptyWatchlist, TRUE, Redirect("/watchlist"), <<>>)

---------------------------------------------------------------------------
(* sorted(movies, key=lambda x: x.get(k, default), reverse=...): a stable  *)
(* sort, also with reverse=True; comparing None with anything raises       *)
(* TypeError, and sorting two or more items compares every one of them.    *)

SortRaises(movies, k, default) ==
    Len(movies) >= 2 /\ \E i \in 1..Len(movies) : Get(movies[i], k, default) = None

RECURSIVE Insert(_, _, _, _, _)
Insert(done, x, k, default, reverse) ==
    IF done = <<>> THEN <<x>>
    ELSE LET h    == Head(done)
             stay == IF reverse
                     THEN Get(h, k, default) >= Get(x, k, default)
                     ELSE Get(h, k, default) <= Get(x, k, default)
         IN  IF stay THEN <<h>> \o Insert(Tail(done), x, k, default, reverse)
                     ELSE <<x>> \o done

RECURSIVE SortFrom(_, _, _, _, _)
SortFrom(done, rest, k, default, reverse) ==
    IF rest = <<>> THEN done
    ELSE SortFrom(Insert(done, Head(rest), k, default, reverse), Tail(rest),
                  k, default, reverse)

sorted(movies, k, default, reverse) == SortFrom(<<>>, movies, k, default, reverse)

---------------------------------------------------------------------------
(* /watchlist?sort=... *)

WatchlistSorts == {"added", "rating", "title", "year", "bogus"}

\* the field, the default and the direction each sort key sorts by
SortField(sort) ==
    CASE sort = "rating" -> [k |-> "vote_average", default |-> 0, reverse |-> TRUE]
      [] sort = "title"  -> [k |-> "title", default |-> EmptyStr, reverse |-> FALSE]
      [] sort = "year"   -> [k |-> "release_date", default |-> EmptyStr, reverse |-> TRUE]
      [] OTHER           -> [k |-> "", default |-> 0, reverse |-> FALSE]

watchlist(s, sort) ==
    LET movies == SessionMovies(s)
        f      == SortField(sort)
    IN  IF f.k = ""
        THEN Result(s, FALSE, Render("watchlist.html", movies, SessionIds(s)), <<>>)
        ELSE IF SortRaises(movies, f.k, f.default)
        THEN Result(s, FALSE, server_error("TypeError"), <<>>)
        ELSE Result(s, FALSE,
                    Render("watchlist.html",
                           sorted(movies, f.k, f.default, f.reverse), SessionIds(s)),
                    <<>>)

---------------------------------------------------------------------------
(* One request: the handler runs on the cookie, Flask saves the session.   *)

NoRequest ==
    [route |-> "", movie_id |-> 0, referrer |-> "", sort |-> "", q |-> <<>>,
     year |-> "", lang |-> "", genre_name |-> "", page |-> 0,
     mood_name |-> "", lang_name |-> "", decade |-> 0, person_id |-> 0,
     collection_id |-> 0]

NoClaude == [kind |-> "unused", text |-> <<>>]

\* the server is between two requests
Waiting == response.kind = "none"

\* the random module was not used
NoRandom == <<>>

\* a request that used the random module, which gave rnd
HandleRandom(req, ups, cl, res, order, rnd) ==
    /\ before' = session
    /\ request' = req
    /\ upstream' = ups
    /\ claude' = cl
    /\ session' = save_session(session, res.session, res.modified)
    /\ response' = res.response
    /\ tmdb_calls' = res.calls
    /\ claude_calls' = res.claude_calls
    /\ added' = order
    /\ random' = rnd

Handle(req, ups, cl, res, order) == HandleRandom(req, ups, cl, res, order, NoRandom)

Without(l, x) == SelectSeq(l, LAMBDA y : y # x)

\* an add completed: the handler returned and both lists got their item
Completed(res) ==
    /\ res.response.kind = "redirect"
    /\ Len(res.session.watchlist_movies) = Len(SessionMovies(session)) + 1

\* an answer nobody consumes: it stands for all of them
Unused == Failed("Timeout")

\* the answers a request for movie_id can consume: none is consumed (one
\* stands for all) when the id is already stored and no fetch is made
Answers(movie_id, outcomes) ==
    IF InWatchlist(movie_id, SessionIds(session)) THEN {Unused} ELSE outcomes

AddRequest(bodies) ==
    /\ Waiting
    /\ \E movie_id \in Ids, referrer \in Referrers :
         \E o \in Answers(movie_id, Outcomes(bodies[movie_id])) :
           LET res == add_watchlist(session, movie_id, referrer, o)
           IN  Handle([NoRequest EXCEPT !.route = "/watchlist/add",
                                        !.movie_id = movie_id, !.referrer = referrer],
                      IF res.calls = <<>> THEN <<>> ELSE <<o>>, NoClaude, res,
                      IF Completed(res) THEN Append(Without(added, movie_id), movie_id)
                                        ELSE added)

\* whatever the metadata API may answer a request for movie_id with
AnyAnswer == [movie_id \in Ids |-> CoreBodies]

\* the answers that are the record of movie_id itself
OwnRecord == [movie_id \in Ids |-> {b \in SortableBodies : b.id = movie_id}]

AddWatchlist == AddRequest(AnyAnswer)

RemoveWatchlist ==
    /\ Waiting
    /\ \E movie_id \in Ids, referrer \in Referrers :
        LET res == remove_watchlist(session, movie_id, referrer)
        IN  Handle([NoRequest EXCEPT !.route = "/watchlist/remove",
                                     !.movie_id = movie_id, !.referrer = referrer],
                   <<>>, NoClaude, res,
                   IF res.modified THEN Without(added, movie_id) ELSE added)

ClearWatchlist ==
    /\ Waiting
    /\ Handle([NoRequest EXCEPT !.route = "/watchlist/clear"],
           <<>>, NoClaude, clear_watchlist(session), <<>>)

ViewWatchlist ==
    /\ Waiting
    /\ \E sort \in WatchlistSorts :
        Handle([NoRequest EXCEPT !.route = "/watchlist", !.sort = sort],
               <<>>, NoClaude, watchlist(session, sort), added)

\* the response is sent; what was recorded of the request is dropped and
\* the server waits for the next one
Deliver ==
    /\ ~Waiting
    /\ before' = session
    /\ request' = NoRequest
    /\ upstream' = <<>>
    /\ claude' = NoClaude
    /\ response' = NoResponse
    /\ tmdb_calls' = <<>>
    /\ claude_calls' = 0
    /\ random' = NoRandom
    /\ UNCHANGED <<session, added>>

Init ==
    /\ session = NoWatchlist
    /\ before = NoWatchlist
    /\ request = NoRequest
    /\ upstream = <<>>
    /\ claude = NoClaude
    /\ response = NoResponse
    /\ tmdb_calls = <<>>
    /\ claude_calls = 0
    /\ added = <<>>
    /\ random = NoRandom

Next == AddWatchlist \/ RemoveWatchlist \/ ClearWatchlist \/ ViewWatchlist \/ Deliver

Spec == Init /\ [][Next]_vars

\* the watchlist with entries that differ in title, rating and date
AddSortable == AddRequest(OwnRecord)

NextView == AddSortable \/ ViewWatchlist \/ Deliver

SpecView == Init /\ [][NextView]_vars

---------------------------------------------------------------------------
(* Text: str.strip() removes the leading and the trailing whitespace.      *)

Chars == {" ", "a"}
Texts == UNION {[1..n -> Chars] : n \in 0..MaxLen}

RECURSIVE lstrip(_)
lstrip(t) == IF t # <<>> /\ Head(t) = " " THEN lstrip(Tail(t)) ELSE t

RECURSIVE rstrip(_)
rstrip(t) ==
    IF t # <<>> /\ t[Len(t)] = " " THEN rstrip(SubSeq(t, 1, Len(t) - 1)) ELSE t

strip(t) == rstrip(lstrip(t))

---------------------------------------------------------------------------
(* ask_claude: the stripped text of the answer, or None when no client was *)
(* built or the call raised.  A result is [absent, text].                  *)

ClaudeErrors == {"APIConnectionError", "APIStatusError", "Exception"}

ClaudeOutcomes ==
    {[kind |-> k, text |-> <<>>] : k \in ClaudeErrors \cup {"not_configured"}}
        \cup {[kind |-> "text", text |-> t] : t \in Texts}

ask_claude(outcome) ==
    IF outcome.kind = "text"
    THEN [absent |-> FALSE, text |-> strip(outcome.text)]
    ELSE [absent |-> TRUE, text |-> <<>>]

\* messages.create is called unless claude_client is None
ClaudeCalled(outcome) == IF outcome.kind = "not_configured" THEN 0 ELSE 1

\* return refined if refined is not None else query
refine_query_keeping_empty(query, outcome) ==
    LET refined == ask_claude(outcome)
    IN  IF ~refined.absent THEN refined.text ELSE query

\* return refined if refined else query
refine_query_with_claude(query, outcome) ==
    LET refined == ask_claude(outcome)
    IN  IF ~refined.absent /\ refined.text # <<>> THEN refined.text ELSE query

---------------------------------------------------------------------------
(* The lists the metadata API answers a search or a discover call with.    *)
(* A movie of a list may lack vote_average; the answer may lack results    *)
(* and total_pages.                                                        *)

ListedMovies ==
    { [id |-> 1, title |-> 2, vote_average |-> 6, release_date |-> 1999],
      [id |-> 2, title |-> 1, release_date |-> 2010] }

ResultLists == UNION {[1..n -> ListedMovies] : n \in 0..MaxResults}

TotalPages == {1, 5, 6, 10, 11}

SearchBodies == {EmptyObject} \cup {[results |-> l] : l \in ResultLists}

DiscoverBodies ==
    SearchBodies \cup {[results |-> l, total_pages |-> t] :
                          l \in ResultLists, t \in TotalPages}

\* sorted(movies, ...) of the search route, by its sort parameter
ClientSort(movies, sort) ==
    CASE sort = "vote_average.desc" -> sorted(movies, "vote_average", 0, TRUE)
      [] sort = "release_date.desc" -> sorted(movies, "release_date", EmptyStr, TRUE)
      [] sort = "title.asc"         -> sorted(movies, "title", EmptyStr, FALSE)
      [] OTHER                      -> movies

---------------------------------------------------------------------------
(* /search?q=&year=&lang=&sort= *)

SearchSorts == {"popularity.desc", "vote_average.desc", "release_date.desc", "title.asc"}
YearArgs == {<<>>, <<" ">>, <<"a">>}
LangArgs == {<<>>, <<"a">>}

\* the fallback test without its refined != query half
NeedsFallbackOnEmpty(movies, refined, query) == movies = <<>>

\* not movies and refined != query
NeedsFallback(movies, refined, query) == movies = <<>> /\ refined # query

\* the search whose fallback call carries the year and language filters too
search_filtering_fallback(s, q, year_arg, lang_arg, sort, ai, first, second) ==
    LET query == strip(q)
        year  == strip(year_arg)
        lang  == strip(lang_arg)
    IN  IF query = <<>>
        THEN Result(s, FALSE, Redirect("/"), <<>>)
        ELSE LET refined == refine_query_with_claude(query, ai)
                 call1 == Call("/search/movie",
                               [query |-> refined, year |-> year, language |-> lang])
                 found == Get(tmdb_get(first), "results", <<>>)
                 again == NeedsFallback(found, refined, query)
                 call2 == Call("/search/movie",
                               [query |-> query, year |-> year, language |-> lang])
                 movies == IF again THEN Get(tmdb_get(second), "results", <<>>)
                                    ELSE found
             IN  [Result(s, FALSE,
                         [Render("index.html", ClientSort(movies, sort), SessionIds(s))
                             EXCEPT !.refined = refined],
                         IF again THEN <<call1, call2>> ELSE <<call1>>)
                     EXCEPT !.claude_calls = ClaudeCalled(ai)]

search(s, q, year_arg, lang_arg, sort, ai, first, second) ==
    LET query == strip(q)
        year  == strip(year_arg)
        lang  == strip(lang_arg)
    IN  IF query = <<>>
        THEN Result(s, FALSE, Redirect("/"), <<>>)
        ELSE LET refined == refine_query_with_claude(query, ai)
                 call1 == Call("/search/movie",
                               [query |-> refined, year |-> year, language |-> lang])
                 found == Get(tmdb_get(first), "results", <<>>)
                 again == NeedsFallback(found, refined, query)
                 call2 == Call("/search/movie",
                               [query |-> query, year |-> <<>>, language |-> <<>>])
                 movies == IF again THEN Get(tmdb_get(second), "results", <<>>)
                                    ELSE found
             IN  [Result(s, FALSE,
                         [Render("index.html", ClientSort(movies, sort), SessionIds(s))
                             EXCEPT !.refined = refined],
                         IF again THEN <<call1, call2>> ELSE <<call1>>)
                     EXCEPT !.claude_calls = ClaudeCalled(ai)]

---------------------------------------------------------------------------
(* /genre/<genre_name>?page=&sort= *)

GENRES ==
    ("Action" :> 28) @@ ("Comedy" :> 35) @@ ("Horror" :> 27) @@
    ("Romance" :> 10749) @@ ("Sci-Fi" :> 878) @@ ("Animation" :> 16) @@
    ("Thriller" :> 53) @@ ("Drama" :> 18) @@ ("Fantasy" :> 14) @@
    ("Crime" :> 80) @@ ("Documentary" :> 99) @@ ("Adventure" :> 12) @@
    ("Mystery" :> 9648) @@ ("Music" :> 10402) @@ ("History" :> 36) @@
    ("War" :> 10752) @@ ("Western" :> 37) @@ ("Family" :> 10751)

\* genre names a URL can carry that are not keys of GENRES
OtherNames == {"action", "Noir", "SciFi"}

\* GENRES.get(genre_name, 28): an unknown name falls back to Action
GenreIdOrAction(genre_name) == Get(GENRES, genre_name, 28)

\* GENRES.get(genre_name)
GenreId(genre_name) == Get(GENRES, genre_name, None)

\* request.args.get('page', 1, type=int): the number, or 1 when the
\* parameter is missing (None here)
PageArgs == {None, 2, 50}
Page(page_arg) == IF page_arg = None THEN 1 ELSE page_arg

Min(a, b) == IF a <= b THEN a ELSE b

genre(s, genre_name, page_arg, sort, outcome) ==
    LET genre_id == GenreId(genre_name)
    IN  IF genre_id = None \/ genre_id = 0        \* not genre_id
        THEN Result(s, FALSE, Redirect("/"), <<>>)
        ELSE LET page == Page(page_arg)
                 call == Call("/discover/movie",
                              [with_genres |-> genre_id, sort_by |-> sort, page |-> page])
                 data == tmdb_get(outcome)
             IN  Result(s, FALSE,
                        [Render("index.html", Get(data, "results", <<>>), SessionIds(s))
                            EXCEPT !.current_page = page,
                                   !.total_pages = Min(Get(data, "total_pages", 1), 10)],
                        <<call>>)

---------------------------------------------------------------------------
(* The listing pages. *)

\* the second answer is consumed only when the fallback call is issued
Search ==
    /\ Waiting
    /\ \E q \in Texts, year \in YearArgs, lang \in LangArgs, sort \in SearchSorts :
         \E ai \in (IF strip(q) = <<>> THEN {NoClaude} ELSE ClaudeOutcomes) :
           \E first \in (IF strip(q) = <<>> THEN {Unused} ELSE Outcomes(SearchBodies)) :
             LET n == Len(search(session, q, year, lang, sort, ai, first, Unused).calls)
             IN  \E second \in (IF n < 2 THEN {Unused} ELSE Outcomes(SearchBodies)) :
                   Handle([NoRequest EXCEPT !.route = "/search", !.q = q,
                                            !.year = year, !.lang = lang, !.sort = sort],
                          SubSeq(<<first, second>>, 1, n), ai,
                          search(session, q, year, lang, sort, ai, first, second),
                          added)

GenreNames == DOMAIN GENRES \cup OtherNames

Genre ==
    /\ Waiting
    /\ \E genre_name \in GenreNames, page \in PageArgs,
          sort \in {"popularity.desc", "vote_average.desc"} :
         \E o \in (IF genre(session, genre_name, page, sort, Unused).calls = <<>>
                   THEN {Unused} ELSE Outcomes(DiscoverBodies)) :
           LET res == genre(session, genre_name, page, sort, o)
           IN  Handle([NoRequest EXCEPT !.route = "/genre", !.genre_name = genre_name,
                                        !.page = page, !.sort = sort],
                      IF res.calls = <<>> THEN <<>> ELSE <<o>>, NoClaude, res, added)

NextPages == Search \/ Genre \/ Deliver

SpecPages == Init /\ [][NextPages]_vars

---------------------------------------------------------------------------
(* Slices and random.shuffle. *)

\* l[a:b], a and b counted as Python counts them
Slice(l, a, b) ==
    IF a >= Min(b, Len(l)) THEN <<>> ELSE SubSeq(l, a + 1, Min(b, Len(l)))

\* l[:n]
Take(l, n) == Slice(l, 0, n)

\* the orders random.shuffle(l) can leave l in: the head of l put at any
\* one place of any order of its tail
RECURSIVE Shuffles(_)
Shuffles(l) ==
    IF l = <<>> THEN {<<>>}
    ELSE UNION {{SubSeq(p, 1, i) \o <<Head(l)>> \o SubSeq(p, i + 1, Len(p)) :
                    i \in 0..Len(p)} : p \in Shuffles(Tail(l))}

\* the results of an answer: data.get('results', [])
ResultsOf(outcome) == Get(tmdb_get(outcome), "results", <<>>)

\* the text-generation outcomes the enriched pages are run with
Enrichments == {o \in ClaudeOutcomes : Len(o.text) <= 1}

---------------------------------------------------------------------------
(* /mood/<mood_name> *)

MOOD_GENRES ==
    ("happy" :> <<"Comedy", "Animation", "Family">>) @@
    ("sad" :> <<"Drama", "Romance">>) @@
    ("excited" :> <<"Action", "Adventure", "Sci-Fi">>) @@
    ("scared" :> <<"Horror", "Thriller">>) @@
    ("romantic" :> <<"Romance", "Drama">>) @@
    ("bored" :> <<"Action", "Crime", "Mystery">>) @@
    ("nostalgic" :> <<"Animation", "Family", "History">>) @@
    ("curious" :> <<"Documentary", "Mystery", "Sci-Fi">>) @@
    ("relaxed" :> <<"Comedy", "Music", "Family">>) @@
    ("angry" :> <<"Action", "Thriller", "Crime">>)

\* mood_name.lower(), on the mood names the model asks for
lower(name) == IF name = "Happy" THEN "happy" ELSE name

\* the answers to the mood page's call: also result lists of the 12 movies
\* the page shows, and of one more
MoodBodies ==
    SearchBodies \cup
    { [results |-> [i \in 1..n |-> IF i = 1 THEN a ELSE b]] :
        n \in {12, 13}, a \in ListedMovies, b \in ListedMovies }

\* the page showing every movie of the answer
mood_slice_all(movies) == movies

\* movies[:12]
mood_slice(movies) == Take(movies, 12)

\* shuffled is the order random.shuffle left the results in
mood_movies(s, mood_name, outcome, shuffled, ai) ==
    LET name       == lower(mood_name)
        genre_list == Get(MOOD_GENRES, name, <<"Action">>)
        known      == SelectSeq(genre_list, LAMBDA g : g \in DOMAIN GENRES)
        genre_ids  == [i \in 1..Len(known) |-> GENRES[known[i]]]
        call       == Call("/discover/movie",
                           [with_genres |-> genre_ids, sort_by |-> "popularity.desc"])
        movies     == mood_slice(shuffled)
    IN  [Result(s, FALSE,
                RenderWith("index.html", movies, SessionIds(s),
                           [mood |-> name], [mood_message |-> ask_claude(ai)]),
                <<call>>)
            EXCEPT !.claude_calls = ClaudeCalled(ai)]

Mood ==
    /\ Waiting
    /\ \E mood_name \in DOMAIN MOOD_GENRES \cup {"Happy", "sleepy"},
          o \in Outcomes(MoodBodies), ai \in Enrichments :
         \E shuffled \in Shuffles(ResultsOf(o)) :
           HandleRandom([NoRequest EXCEPT !.route = "/mood/<mood_name>",
                                          !.mood_name = mood_name],
                        <<o>>, ai, mood_movies(session, mood_name, o, shuffled, ai),
                        added, shuffled)

---------------------------------------------------------------------------
(* /mood *)

mood_page(s) ==
    Result(s, FALSE,
           RenderWith("mood.html", <<>>, SessionIds(s),
                      [moods |-> DOMAIN MOOD_GENRES], EmptyObject),
           <<>>)

MoodPage ==
    /\ Waiting
    /\ Handle([NoRequest EXCEPT !.route = "/mood"], <<>>, NoClaude,
              mood_page(session), added)

---------------------------------------------------------------------------
(* /language/<lang_name> *)

LANGUAGES ==
    ("English" :> "en") @@ ("Hindi" :> "hi") @@ ("Spanish" :> "es") @@
    ("French" :> "fr") @@ ("Korean" :> "ko") @@ ("Japanese" :> "ja") @@
    ("Italian" :> "it") @@ ("German" :> "de") @@ ("Chinese" :> "zh") @@
    ("Portuguese" :> "pt")

language_movies(s, lang_name, outcome) ==
    IF ~Has(LANGUAGES, lang_name) \/ LANGUAGES[lang_name] = ""    \* not lang_code
    THEN Result(s, FALSE, Redirect("/"), <<>>)
    ELSE Result(s, FALSE, Render("index.html", ResultsOf(outcome), SessionIds(s)),
                <<Call("/discover/movie",
                       [with_original_language |-> LANGUAGES[lang_name],
                        sort_by |-> "popularity.desc"])>>)

Language ==
    /\ Waiting
    /\ \E lang_name \in DOMAIN LANGUAGES \cup {"english", "Klingon"} :
         \E o \in (IF language_movies(session, lang_name, Unused).calls = <<>>
                   THEN {Unused} ELSE Outcomes(SearchBodies)) :
           LET res == language_movies(session, lang_name, o)
           IN  Handle([NoRequest EXCEPT !.route = "/language/<lang_name>",
                                        !.lang_name = lang_name],
                      IF res.calls = <<>> THEN <<>> ELSE <<o>>, NoClaude, res, added)

---------------------------------------------------------------------------
(* /decade/<decade> *)

valid_decades == <<1950, 1960, 1970, 1980, 1990, 2000, 2010, 2020>>

decade_movies(s, decade, outcome) ==
    IF decade \notin Range(valid_decades)
    THEN Result(s, FALSE, Redirect("/"), <<>>)
    ELSE Result(s, FALSE, Render("index.html", ResultsOf(outcome), SessionIds(s)),
                <<Call("/discover/movie",
                       [primary_release_date_gte |-> decade,
                        primary_release_date_lte |-> decade + 9,
                        sort_by |-> "popularity.desc"])>>)

Decade ==
    /\ Waiting
    /\ \E decade \in Range(valid_decades) \cup {0, 1940, 1955, 2021, 2030} :
         \E o \in (IF decade \in Range(valid_decades) THEN Outcomes(SearchBodies)
                                                      ELSE {Unused}) :
           LET res == decade_movies(session, decade, o)
           IN  Handle([NoRequest EXCEPT !.route = "/decade/<decade>", !.decade = decade],
                      IF res.calls = <<>> THEN <<>> ELSE <<o>>, NoClaude, res, added)

---------------------------------------------------------------------------
(* /top-rated, /now-playing, /upcoming, /popular: one page of a list, and  *)
(* the number of pages, capped.                                            *)

\* the body the four handlers share, but for the endpoint and the cap
paged(s, path, cap, page_arg, outcome) ==
    LET page == Page(page_arg)
        data == tmdb_get(outcome)
    IN  Result(s, FALSE,
               [Render("index.html", Get(data, "results", <<>>), SessionIds(s))
                   EXCEPT !.current_page = page,
                          !.total_pages = Min(Get(data, "total_pages", 1), cap)],
               <<Call(path, [page |-> page])>>)

top_rated(s, page_arg, outcome) == paged(s, "/movie/top_rated", 10, page_arg, outcome)

\* now playing with the cap of the top-rated page
now_playing_as_top_rated(s, page_arg, outcome) ==
    paged(s, "/movie/now_playing", 10, page_arg, outcome)

now_playing(s, page_arg, outcome) == paged(s, "/movie/now_playing", 5, page_arg, outcome)

upcoming(s, page_arg, outcome) == paged(s, "/movie/upcoming", 5, page_arg, outcome)

popular(s, page_arg, outcome) == paged(s, "/movie/popular", 10, page_arg, outcome)

TopRated ==
    /\ Waiting
    /\ \E page \in PageArgs, o \in Outcomes(DiscoverBodies) :
         Handle([NoRequest EXCEPT !.route = "/top-rated", !.page = page],
                <<o>>, NoClaude, top_rated(session, page, o), added)

NowPlaying ==
    /\ Waiting
    /\ \E page \in PageArgs, o \in Outcomes(DiscoverBodies) :
         Handle([NoRequest EXCEPT !.route = "/now-playing", !.page = page],
                <<o>>, NoClaude, now_playing(session, page, o), added)

Upcoming ==
    /\ Waiting
    /\ \E page \in PageArgs, o \in Outcomes(DiscoverBodies) :
         Handle([NoRequest EXCEPT !.route = "/upcoming", !.page = page],
                <<o>>, NoClaude, upcoming(session, page, o), added)

Popular ==
    /\ Waiting
    /\ \E page \in PageArgs, o \in Outcomes(DiscoverBodies) :
         Handle([NoRequest EXCEPT !.route = "/popular", !.page = page],
                <<o>>, NoClaude, popular(session, page, o), added)

---------------------------------------------------------------------------
(* / *)

index(s, trending_outcome, popular_outcome, top_outcome) ==
    LET trending_data == ResultsOf(trending_outcome)
        featured == IF trending_data # <<>> THEN trending_data[1] ELSE None
    IN  Result(s, FALSE,
               RenderWith("index.html", Slice(trending_data, 1, 13), SessionIds(s),
                          [featured  |-> featured,
                           popular   |-> Take(ResultsOf(popular_outcome), 8),
                           top_picks |-> Take(ResultsOf(top_outcome), 6)],
                          EmptyObject),
               <<Call("/trending/movie/week", EmptyObject),
                 Call("/movie/popular", EmptyObject),
                 Call("/movie/top_rated", EmptyObject)>>)

Index ==
    /\ Waiting
    /\ \E o1, o2, o3 \in Outcomes(SearchBodies) :
         Handle([NoRequest EXCEPT !.route = "/"], <<o1, o2, o3>>, NoClaude,
                index(session, o1, o2, o3), added)

---------------------------------------------------------------------------
(* /trivia *)

\* pick is the position random.choice took of movies[:15]
trivia_page(s, outcome, pick, ai) ==
    LET movies == ResultsOf(outcome)
        call   == <<Call("/movie/popular", EmptyObject)>>
    IN  IF movies = <<>>
        THEN Result(s, FALSE, ErrorView("Could not load trivia."), call)
        ELSE [Result(s, FALSE,
                     RenderWith("trivia.html", <<>>, SessionIds(s),
                                [movie |-> Take(movies, 15)[pick]],
                                [trivia |-> ask_claude(ai)]),
                     call)
                 EXCEPT !.claude_calls = ClaudeCalled(ai)]

Trivia ==
    /\ Waiting
    /\ \E o \in Outcomes(MoodBodies) :
         LET n == Len(Take(ResultsOf(o), 15))
         IN  \E pick \in (IF n = 0 THEN {0} ELSE 1..n),
                ai \in (IF n = 0 THEN {NoClaude} ELSE Enrichments) :
               HandleRandom([NoRequest EXCEPT !.route = "/trivia"], <<o>>, ai,
                            trivia_page(session, o, pick, ai), added,
                            IF n = 0 THEN NoRandom ELSE <<pick>>)

---------------------------------------------------------------------------
(* /movie/<movie_id> *)

\* a video of the videos answer: its place in the answer is its key
Video(key, type, site) == [key |-> key, type |-> type, site |-> site]

VideoKinds ==
    { [type |-> "Trailer", site |-> "YouTube"], [type |-> "Teaser", site |-> "YouTube"],
      [type |-> "Clip", site |-> "YouTube"], [type |-> "Trailer", site |-> "Vimeo"] }

\* answers of up to two videos of any kind, one video without type and
\* site, and answers of more YouTube videos than the page shows clips: a
\* teaser, a trailer on either site, then clips
VideoBodies ==
    {EmptyObject} \cup {[results |-> l] : l \in
    UNION {{[i \in 1..n |-> Video(i, k[i].type, k[i].site)] : k \in [1..n -> VideoKinds]} :
              n \in 0..2}
      \cup {<<[key |-> 1]>>}
      \cup {[i \in 1..n |-> CASE i = 1 -> Video(i, "Teaser", "YouTube")
                                 [] i = 2 -> Video(i, "Trailer", site)
                                 [] OTHER -> Video(i, "Clip", "YouTube")] :
              n \in {6, 7}, site \in {"YouTube", "Vimeo"}}}

\* the primary record: without id, without the embedded credits, keywords
\* and reviews, with a genre that has no name
DetailBodies ==
    { Obj(AlwaysKeys \cup ks,
          [id |-> 1, title |-> 1, poster_path |-> 1, vote_average |-> 6,
           release_date |-> 1999, overview |-> 1, genres |-> g,
           credits |->
               [cast |-> <<[name |-> 1]>>,
                crew |-> <<[job |-> "Producer", name |-> 1],
                           [job |-> "Director", name |-> 2],
                           [job |-> "Story", name |-> 3],
                           [job |-> "Director", name |-> 4], [name |-> 5]>>],
           keywords |-> [keywords |-> <<1, 2>>], reviews |-> EmptyObject]) :
        ks \in {{}, {"id"}, {"id", "genres"},
                {"id", "genres", "credits", "keywords", "reviews"}},
        g \in {<<GenreOk>>, <<[id |-> 28]>>} }

\* the answers of the calls for similar and recommended titles: a failure,
\* or more titles than the page shows
RelatedOutcomes == {Failed("HTTPError"), Ok([results |-> [i \in 1..7 |-> [id |-> i]]])}

\* v.get('type') == type and v.get('site') == 'YouTube'
IsYouTube(v, type) == Has(v, "type") /\ v.type = type /\ Has(v, "site") /\ v.site = "YouTube"

\* v.get('site') == 'YouTube'
OnYouTube(v) == Has(v, "site") /\ v.site = "YouTube"

\* next((v for v in videos if ...), None): the first such video, in a list
\* of one, or the empty list for None
FirstVideo(videos, type) ==
    Take(SelectSeq(videos, LAMBDA v : IsYouTube(v, type)), 1)

\* the teaser looked for whether or not there is a trailer
teaser_always(videos, trailer) == FirstVideo(videos, "Teaser")

\* teaser = None; if not trailer: teaser = next(...)
teaser_of(videos, trailer) ==
    IF trailer = <<>> THEN FirstVideo(videos, "Teaser") ELSE <<>>

\* [g['name'] for g in movie.get('genres', [])] raises KeyError
GenreNamesRaise(movie) ==
    LET genres == Get(movie, "genres", <<>>)
    IN  \E i \in 1..Len(genres) : ~Has(genres[i], "name")

HasJob(c, jobs) == Has(c, "job") /\ c.job \in jobs

movie_detail(s, movie_id, movie_outcome, video_outcome, similar_outcome, recom_outcome, review_outcome, fact_outcome) ==
    LET calls == <<Call("/movie/{id}", [id |-> movie_id,
                                        append_to_response |-> "credits,keywords,reviews"]),
                   Call("/movie/{id}/videos", [id |-> movie_id]),
                   Call("/movie/{id}/similar", [id |-> movie_id]),
                   Call("/movie/{id}/recommendations", [id |-> movie_id])>>
        movie       == tmdb_get(movie_outcome)
        videos      == ResultsOf(video_outcome)
        similar     == Take(ResultsOf(similar_outcome), 6)
        recommended == Take(ResultsOf(recom_outcome), 6)
    IN  IF ~HasId(movie)
        THEN Result(s, FALSE, ErrorView("Movie not found."), calls)
        ELSE IF GenreNamesRaise(movie)
        THEN Result(s, FALSE, ErrorView("'name'"), calls)
        ELSE
        LET trailer == FirstVideo(videos, "Trailer")
            teaser  == teaser_of(videos, trailer)
            clips   == Take(SelectSeq(videos, OnYouTube), 5)
            credits == Get(movie, "credits", EmptyObject)
            crew    == Get(credits, "crew", <<>>)
            genres  == Get(movie, "genres", <<>>)
            watchlist_ids == SessionIds(s)
            data ==
                [movie       |-> movie,
                 trailer     |-> trailer,
                 teaser      |-> teaser,
                 clips       |-> clips,
                 similar     |-> similar,
                 recommended |-> recommended,
                 cast        |-> Take(Get(credits, "cast", <<>>), 12),
                 director    |-> Take(SelectSeq(crew, LAMBDA c : HasJob(c, {"Director"})), 1),
                 writers     |-> Take(SelectSeq(crew,
                                     LAMBDA c : HasJob(c, {"Writer", "Screenplay", "Story"})), 3),
                 keywords    |-> Take(Get(Get(movie, "keywords", EmptyObject),
                                          "keywords", <<>>), 10),
                 reviews     |-> Take(Get(Get(movie, "reviews", EmptyObject),
                                          "results", <<>>), 3),
                 genre_names |-> [i \in 1..Len(genres) |-> genres[i].name],
                 companies   |-> Take(Get(movie, "production_companies", <<>>), 4),
                 spoken_languages      |-> Get(movie, "spoken_languages", <<>>),
                 belongs_to_collection |-> Get(movie, "belongs_to_collection", None),
                 in_watchlist          |-> InWatchlist(movie_id, watchlist_ids)]
        IN  [Result(s, FALSE,
                    RenderWith("movie.html", <<>>, watchlist_ids, data,
                               [ai_review   |-> ask_claude(review_outcome),
                                ai_fun_fact |-> ask_claude(fact_outcome)]),
                    calls)
                EXCEPT !.claude_calls = ClaudeCalled(review_outcome)
                                          + ClaudeCalled(fact_outcome)]

\* the page is reached: the texts are asked for
DetailEnriched(movie_outcome) ==
    HasId(tmdb_get(movie_outcome)) /\ ~GenreNamesRaise(tmdb_get(movie_outcome))

MovieDetail ==
    /\ Waiting
    /\ \E movie_id \in Ids, mo \in Outcomes(DetailBodies),
          vo \in Outcomes(VideoBodies), so \in RelatedOutcomes, ro \in RelatedOutcomes :
         \E a1 \in (IF DetailEnriched(mo) THEN Enrichments ELSE {NoClaude}),
            a2 \in (IF DetailEnriched(mo) THEN Enrichments ELSE {NoClaude}) :
           Handle([NoRequest EXCEPT !.route = "/movie/<movie_id>", !.movie_id = movie_id],
                  <<mo, vo, so, ro>>,
                  IF DetailEnriched(mo)
                  THEN [kind |-> "both", text |-> <<>>, review |-> a1, fact |-> a2]
                  ELSE NoClaude,
                  movie_detail(session, movie_id, mo, vo, so, ro, a1, a2), added)

---------------------------------------------------------------------------
(* /actor/<person_id> *)

PersonBodies ==
    { Obj(ks,
          [id |-> 1, name |-> 1,
           movie_credits |->
               [cast |-> <<[id |-> 1, popularity |-> 3], [id |-> 2, popularity |-> 7],
                           [id |-> 3]>>,
                crew |-> <<[id |-> 4, job |-> "Producer"],
                           [id |-> 5, job |-> "Director", popularity |-> 2],
                           [id |-> 6, job |-> "Director", popularity |-> 9]>>],
           images |-> [profiles |-> <<1, 2>>]]) :
        ks \in {{}, {"name"}, {"id"}, {"id", "name"},
                {"id", "name", "movie_credits", "images"}} }

actor_detail(s, person_id, outcome, ai) ==
    LET person == tmdb_get(outcome)
        call   == <<Call("/person/{id}", [id |-> person_id,
                                          append_to_response |-> "movie_credits,images"])>>
    IN  IF ~HasId(person)
        THEN Result(s, FALSE, ErrorView("Person not found."), call)
        ELSE
        LET credits == Get(person, "movie_credits", EmptyObject)
            movies  == Take(sorted(Get(credits, "cast", <<>>), "popularity", 0, TRUE), 20)
            directors == SelectSeq(Get(credits, "crew", <<>>),
                                   LAMBDA m : HasJob(m, {"Director"}))
        IN  [Result(s, FALSE,
                    RenderWith("actor.html", movies, SessionIds(s),
                               [person   |-> person,
                                directed |-> Take(sorted(directors, "popularity", 0, TRUE), 10),
                                images   |-> Take(Get(Get(person, "images", EmptyObject),
                                                      "profiles", <<>>), 8)],
                               [ai_bio |-> ask_claude(ai)]),
                    call)
                EXCEPT !.claude_calls = ClaudeCalled(ai)]

ActorDetail ==
    /\ Waiting
    /\ \E person_id \in Ids, o \in Outcomes(PersonBodies) :
         \E ai \in (IF HasId(tmdb_get(o)) THEN Enrichments ELSE {NoClaude}) :
           Handle([NoRequest EXCEPT !.route = "/actor/<person_id>",
                                    !.person_id = person_id],
                  <<o>>, ai, actor_detail(session, person_id, o, ai), added)

---------------------------------------------------------------------------
(* /collection/<collection_id> *)

collection(s, collection_id, outcome) ==
    LET col_data == tmdb_get(outcome)
        call     == <<Call("/collection/{id}", [id |-> collection_id])>>
    IN  IF ~HasId(col_data)
        THEN Result(s, FALSE, Redirect("/"), call)
        ELSE Result(s, FALSE,
                    Render("index.html",
                           sorted(Get(col_data, "parts", <<>>), "release_date",
                                  EmptyStr, FALSE),
                           SessionIds(s)),
                    call)

Collection ==
    /\ Waiting
    /\ \E collection_id \in Ids,
          o \in Outcomes({EmptyObject, [name |-> 1], [id |-> 1],
                          [id |-> 1, name |-> 1,
                           parts |-> <<[id |-> 1, release_date |-> 2010], [id |-> 2],
                                       [id |-> 3, release_date |-> 1999]>>]}) :
         Handle([NoRequest EXCEPT !.route = "/collection/<collection_id>",
                                  !.collection_id = collection_id],
                <<o>>, NoClaude, collection(session, collection_id, o), added)

---------------------------------------------------------------------------
(* /random?genre= *)

\* page is what random.randint(1, 5) gave, pick the position random.choice took
random_movie(s, genre_name, page, outcome, pick) ==
    LET call == IF genre_name # "" /\ Has(GENRES, genre_name)
                THEN Call("/discover/movie",
                          [with_genres |-> GENRES[genre_name],
                           sort_by |-> "popularity.desc", page |-> page])
                ELSE Call("/movie/popular", [page |-> page])
        movies == ResultsOf(outcome)
    IN  IF movies = <<>>
        THEN Result(s, FALSE, Redirect("/"), <<call>>)
        ELSE IF ~Has(movies[pick], "id")
        THEN Result(s, FALSE, ErrorView("'id'"), <<call>>)
        ELSE Result(s, FALSE,
                    [Redirect("/movie/<movie_id>") EXCEPT !.data = [movie_id |-> movies[pick].id]],
                    <<call>>)

Random ==
    /\ Waiting
    /\ \E genre_name \in {"", "Drama", "Noir"}, page \in 1..5,
          o \in Outcomes(SearchBodies \cup {[results |-> <<[id |-> 1], [title |-> 1]>>]}) :
         LET n == Len(ResultsOf(o))
         IN  \E pick \in (IF n = 0 THEN {0} ELSE 1..n) :
               HandleRandom([NoRequest EXCEPT !.route = "/random",
                                              !.genre_name = genre_name],
                            <<o>>, NoClaude,
                            random_movie(session, genre_name, page, o, pick), added,
                            IF n = 0 THEN <<page>> ELSE <<page, pick>>)

---------------------------------------------------------------------------
(* /about *)

about(s) == Result(s, FALSE, Render("about.html", <<>>, SessionIds(s)), <<>>)

About ==
    /\ Waiting
    /\ Handle([NoRequest EXCEPT !.route = "/about"], <<>>, NoClaude,
              about(session), added)

---------------------------------------------------------------------------
(* /test *)

\* key_set is bool(TMDB_KEY)
test(s, key_set, outcome) ==
    LET movies == ResultsOf(outcome)
    IN  Result(s, FALSE,
               Json(200, [tmdb_key_set |-> key_set,
                          movies_count |-> Len(movies),
                          first_movie  |-> IF movies # <<>>
                                           THEN Get(movies[1], "title", None)
                                           ELSE None]),
               <<Call("/trending/movie/week", EmptyObject)>>)

Test ==
    /\ Waiting
    /\ \E key_set \in BOOLEAN, o \in Outcomes(SearchBodies) :
         Handle([NoRequest EXCEPT !.route = "/test"], <<o>>, NoClaude,
                test(session, key_set, o), added)

---------------------------------------------------------------------------
(* The JSON routes. *)

\* jsonify({..., 'count': len(movies), 'results': movies})
Listing(head, movies) == head @@ [count |-> Len(movies), results |-> movies]

\* the handler creating the two lists on first access, as the add does
api_watchlist_creating(s) ==
    LET movies == SessionMovies(s)
    IN  Result(IF s.present THEN s ELSE EmptyWatchlist, ~s.present,
               Json(200, [count |-> Len(movies), movies |-> movies]), <<>>)

api_watchlist(s) ==
    LET movies == SessionMovies(s)
    IN  Result(s, FALSE, Json(200, [count |-> Len(movies), movies |-> movies]), <<>>)

api_movie(s, movie_id, outcome) ==
    LET movie == tmdb_get(outcome)
        call  == <<Call("/movie/{id}", [id |-> movie_id])>>
    IN  IF ~HasId(movie)
        THEN Result(s, FALSE, JsonError(404, "Movie not found"), call)
        ELSE Result(s, FALSE, Json(200, movie), call)

\* the empty-query test on the parameter as it was sent
api_search_unstripped(s, q, outcome) ==
    IF q = <<>>
    THEN Result(s, FALSE, JsonError(400, "No query provided"), <<>>)
    ELSE Result(s, FALSE, Json(200, Listing([query |-> strip(q)], ResultsOf(outcome))),
                <<Call("/search/movie", [query |-> strip(q)])>>)

api_search(s, q, outcome) ==
    LET query == strip(q)
    IN  IF query = <<>>
        THEN Result(s, FALSE, JsonError(400, "No query provided"), <<>>)
        ELSE Result(s, FALSE, Json(200, Listing([query |-> query], ResultsOf(outcome))),
                    <<Call("/search/movie", [query |-> query])>>)

\* the handler taking an absent review for a failure
api_review_needing_text(s, movie_id, outcome, ai) ==
    LET movie == tmdb_get(outcome)
        call  == <<Call("/movie/{id}", [id |-> movie_id])>>
    IN  IF ~HasId(movie)
        THEN Result(s, FALSE, JsonError(404, "Movie not found"), call)
        ELSE IF ask_claude(ai).absent
        THEN [Result(s, FALSE, JsonError(500, "No review"), call)
                 EXCEPT !.claude_calls = ClaudeCalled(ai)]
        ELSE [Result(s, FALSE,
                     [Json(200, [movie |-> Get(movie, "title", EmptyStr)])
                         EXCEPT !.ai = [review |-> ask_claude(ai)]],
                     call)
                 EXCEPT !.claude_calls = ClaudeCalled(ai)]

api_review(s, movie_id, outcome, ai) ==
    LET movie == tmdb_get(outcome)
        call  == <<Call("/movie/{id}", [id |-> movie_id])>>
    IN  IF ~HasId(movie)
        THEN Result(s, FALSE, JsonError(404, "Movie not found"), call)
        ELSE [Result(s, FALSE,
                     [Json(200, [movie |-> Get(movie, "title", EmptyStr)])
                         EXCEPT !.ai = [review |-> ask_claude(ai)]],
                     call)
                 EXCEPT !.claude_calls = ClaudeCalled(ai)]

api_trivia(s, movie_id, outcome, ai) ==
    LET movie == tmdb_get(outcome)
        call  == <<Call("/movie/{id}", [id |-> movie_id])>>
    IN  IF ~HasId(movie)
        THEN Result(s, FALSE, JsonError(404, "Movie not found"), call)
        ELSE [Result(s, FALSE,
                     [Json(200, [movie |-> Get(movie, "title", EmptyStr)])
                         EXCEPT !.ai = [trivia |-> ask_claude(ai)]],
                     call)
                 EXCEPT !.claude_calls = ClaudeCalled(ai)]

api_trending(s, outcome) ==
    Result(s, FALSE, Json(200, Listing(EmptyObject, ResultsOf(outcome))),
           <<Call("/trending/movie/week", EmptyObject)>>)

api_recommendations(s, movie_id, outcome) ==
    Result(s, FALSE, Json(200, Listing([movie_id |-> movie_id], ResultsOf(outcome))),
           <<Call("/movie/{id}/recommendations", [id |-> movie_id])>>)

api_similar(s, movie_id, outcome) ==
    Result(s, FALSE, Json(200, Listing([movie_id |-> movie_id], ResultsOf(outcome))),
           <<Call("/movie/{id}/similar", [id |-> movie_id])>>)

api_actor(s, person_id, outcome) ==
    LET person == tmdb_get(outcome)
        call   == <<Call("/person/{id}", [id |-> person_id,
                                          append_to_response |-> "movie_credits"])>>
    IN  IF ~HasId(person)
        THEN Result(s, FALSE, JsonError(404, "Person not found"), call)
        ELSE Result(s, FALSE, Json(200, person), call)

api_genre(s, genre_name, outcome) ==
    LET genre_id == GenreId(genre_name)
    IN  IF genre_id = None \/ genre_id = 0        \* not genre_id
        THEN Result(s, FALSE, JsonError(404, "Genre not found"), <<>>)
        ELSE Result(s, FALSE,
                    Json(200, Listing([genre |-> genre_name], ResultsOf(outcome))),
                    <<Call("/discover/movie",
                           [with_genres |-> genre_id, sort_by |-> "popularity.desc"])>>)

ApiWatchlist ==
    /\ Waiting
    /\ Handle([NoRequest EXCEPT !.route = "/api/watchlist"], <<>>, NoClaude,
              api_watchlist(session), added)

ApiMovie ==
    /\ Waiting
    /\ \E movie_id \in Ids, o \in Outcomes(CoreBodies) :
         Handle([NoRequest EXCEPT !.route = "/api/movie", !.movie_id = movie_id],
                <<o>>, NoClaude, api_movie(session, movie_id, o), added)

ApiSearch ==
    /\ Waiting
    /\ \E q \in Texts :
         \E o \in (IF strip(q) = <<>> THEN {Unused} ELSE Outcomes(SearchBodies)) :
           LET res == api_search(session, q, o)
           IN  Handle([NoRequest EXCEPT !.route = "/api/search", !.q = q],
                      IF res.calls = <<>> THEN <<>> ELSE <<o>>, NoClaude, res, added)

ApiReview ==
    /\ Waiting
    /\ \E movie_id \in Ids, o \in Outcomes(CoreBodies) :
         \E ai \in (IF HasId(tmdb_get(o)) THEN Enrichments ELSE {NoClaude}) :
           Handle([NoRequest EXCEPT !.route = "/api/review", !.movie_id = movie_id],
                  <<o>>, ai, api_review(session, movie_id, o, ai), added)

ApiTrivia ==
    /\ Waiting
    /\ \E movie_id \in Ids, o \in Outcomes(CoreBodies) :
         \E ai \in (IF HasId(tmdb_get(o)) THEN Enrichments ELSE {NoClaude}) :
           Handle([NoRequest EXCEPT !.route = "/api/trivia", !.movie_id = movie_id],
                  <<o>>, ai, api_trivia(session, movie_id, o, ai), added)

ApiTrending ==
    /\ Waiting
    /\ \E o \in Outcomes(SearchBodies) :
         Handle([NoRequest EXCEPT !.route = "/api/trending"], <<o>>, NoClaude,
                api_trending(session, o), added)

ApiRecommendations ==
    /\ Waiting
    /\ \E movie_id \in Ids, o \in Outcomes(SearchBodies) :
         Handle([NoRequest EXCEPT !.route = "/api/recommendations",
                                  !.movie_id = movie_id],
                <<o>>, NoClaude, api_recommendations(session, movie_id, o), added)

ApiSimilar ==
    /\ Waiting
    /\ \E movie_id \in Ids, o \in Outcomes(SearchBodies) :
         Handle([NoRequest EXCEPT !.route = "/api/similar", !.movie_id = movie_id],
                <<o>>, NoClaude, api_similar(session, movie_id, o), added)

ApiActor ==
    /\ Waiting
    /\ \E person_id \in Ids, o \in Outcomes(PersonBodies) :
         Handle([NoRequest EXCEPT !.route = "/api/actor", !.person_id = person_id],
                <<o>>, NoClaude, api_actor(session, person_id, o), added)

ApiGenre ==
    /\ Waiting
    /\ \E genre_name \in GenreNames :
         \E o \in (IF api_genre(session, genre_name, Unused).calls = <<>>
                   THEN {Unused} ELSE Outcomes(SearchBodies)) :
           LET res == api_genre(session, genre_name, o)
           IN  Handle([NoRequest EXCEPT !.route = "/api/genre",
                                        !.genre_name = genre_name],
                      IF res.calls = <<>> THEN <<>> ELSE <<o>>, NoClaude, res, added)

---------------------------------------------------------------------------
(* The site without the routes that change the watchlist. *)

ListingPages ==
    \/ Index \/ Search \/ Genre \/ Mood \/ Language \/ Decade
    \/ TopRated \/ NowPlaying \/ Upcoming \/ Popular \/ Trivia

OtherPages == MoodPage \/ Random \/ About \/ Test \/ Collection

ApiRoutes ==
    \/ ApiWatchlist \/ ApiMovie \/ ApiSearch \/ ApiReview \/ ApiTrivia
    \/ ApiTrending \/ ApiRecommendations \/ ApiSimilar \/ ApiActor \/ ApiGenre

SpecListings == Init /\ [][ListingPages \/ Deliver]_vars

SpecSite ==
    Init /\ [][MovieDetail \/ ActorDetail \/ OtherPages \/ ApiRoutes
                 \/ Mood \/ Trivia \/ Deliver]_vars

\* the add answered with the record of movie_id, whole
AddPlain ==
    AddRequest([movie_id \in Ids |->
                  {[id |-> movie_id, title |-> 1, poster_path |-> 1, vote_average |-> 6,
                    release_date |-> 1999, overview |-> 1, genres |-> <<GenreOk>>]}])

SpecFrame ==
    Init /\ [][\/ AddPlain \/ RemoveWatchlist \/ ClearWatchlist \/ ViewWatchlist
               \/ ListingPages \/ MovieDetail \/ ActorDetail \/ OtherPages
               \/ ApiRoutes \/ Deliver]_vars

---------------------------------------------------------------------------
(* What the last request was. *)

IsAdd == request.route = "/watchlist/add"
IsRemove == request.route = "/watchlist/remove"
IsClear == request.route = "/watchlist/clear"
IsView == request.route = "/watchlist"

\* the add fetched, and the fetch failed or its record has no id
FetchGaveNoId ==
    /\ IsAdd /\ upstream # <<>>
    /\ (upstream[1].kind # "ok" \/ ~Has(upstream[1].body, "id"))

\* the number of positions of l that hold x
Count(l, x) == Cardinality({i \in 1..Len(l) : l[i] = x})

IsPermutation(a, b) ==
    /\ Len(a) = Len(b)
    /\ \A x \in Range(a) \cup Range(b) : Count(a, x) = Count(b, x)

NoDuplicates(l) == \A i, j \in 1..Len(l) : i # j => l[i] # l[j]

---------------------------------------------------------------------------
(* C1: after any sequence of add, remove and clear requests, whatever the  *)
(* metadata API answered, the stored id list and the stored entry list     *)
(* have the same length and entry i carries the id at position i.          *)
(* The code breaks it in two ways: the entry takes its id from the fetched *)
(* record while the id list takes the id of the URL, and an add that       *)
(* raises while building the entry has already appended the id.            *)
C1_ParallelLists ==
    LET ids == SessionIds(session)
        movies == SessionMovies(session)
    IN  /\ Len(ids) = Len(movies)
        /\ \A i \in 1..Len(ids) : movies[i].id = ids[i]

(* C2: an add or a remove is all-or-nothing over the two lists: the saved  *)
(* id list gains or loses an item exactly when the saved entry list does,  *)
(* also when building the entry raised.  The first add of a session sets   *)
(* session.modified by creating the two lists, so when it then raises, the *)
(* id list is saved with the new id and the entry list without the entry.  *)
C2_AllOrNothing ==
    (IsAdd \/ IsRemove) =>
        Len(SessionIds(session)) - Len(SessionIds(before))
            = Len(SessionMovies(session)) - Len(SessionMovies(before))

(* C3: add is idempotent and keeps the ids unique: an add of an id that is *)
(* already stored fetches nothing and leaves the session as it was, and no *)
(* id occurs twice in the stored id list.                                  *)
C3_AddIdempotent ==
    /\ NoDuplicates(SessionIds(session))
    /\ (IsAdd /\ request.movie_id \in Range(SessionIds(before))) =>
           /\ tmdb_calls = <<>>
           /\ session = before
           /\ response.kind = "redirect"

C3_Witness ==
    /\ IsAdd /\ request.movie_id \in Range(SessionIds(before))
    /\ Len(SessionIds(before)) >= 2

(* C4: when the fetch of an add fails or returns a record without an id,   *)
(* nothing is added: both lists are what they were (a session without a    *)
(* watchlist gets two empty lists) and the response is a redirect.         *)
C4_NoIdNoAdd ==
    FetchGaveNoId =>
        /\ SessionIds(session) = SessionIds(before)
        /\ SessionMovies(session) = SessionMovies(before)
        /\ session.present
        /\ (~before.present => session = EmptyWatchlist)
        /\ response.kind = "redirect"
        /\ response.location = Back(request.referrer)

C4_Witness ==
    /\ FetchGaveNoId
    /\ upstream[1].kind = "ok" /\ Truthy(upstream[1].body)
    /\ Len(SessionIds(before)) >= 1

(* C5: remove(movieId) deletes exactly the position of movieId from both   *)
(* lists when the id is stored, and changes nothing otherwise.  It fails   *)
(* once C2's half-applied add has left the entry list shorter than the id  *)
(* list: the remove then raises and removes nothing, or removes the entry  *)
(* of another movie.                                                       *)
C5_RemoveExact ==
    IsRemove =>
        IF request.movie_id \in Range(SessionIds(before))
        THEN LET idx == IndexOf(SessionIds(before), request.movie_id)
             IN  /\ SessionIds(session) = Pop(SessionIds(before), idx)
                 /\ idx <= Len(SessionMovies(before))
                 /\ SessionMovies(session) = Pop(SessionMovies(before), idx)
        ELSE session = before

(* C6: the stored order is insertion order: a completed add puts the id    *)
(* and its entry last in both lists, so the stored ids are, in order, the  *)
(* ids of the latest completed adds that were not removed since.  It fails *)
(* with C2's half-applied add, which stores an id no add completed for.    *)
C6_InsertionOrder ==
    /\ SessionIds(session) = added
    /\ (IsAdd /\ Len(SessionMovies(session)) = Len(SessionMovies(before)) + 1) =>
           /\ SessionIds(session)[Len(SessionIds(session))] = request.movie_id
           /\ SessionMovies(session)[Len(SessionMovies(session))]
                  = Entry(upstream[1].body)

(* C7: viewing the watchlist with any sort key renders a permutation of    *)
(* the stored entries and leaves the stored lists alone; with the default  *)
(* or an unknown key the rendered order is the stored order.  An entry     *)
(* stores None for a title or vote_average the record lacked, and sorting  *)
(* two or more entries by that field then raises.                          *)
C7_ViewPermutes ==
    IsView =>
        /\ session = before
        /\ response.kind = "render"
        /\ response.template = "watchlist.html"
        /\ IsPermutation(response.movies, SessionMovies(before))
        /\ (request.sort \notin {"rating", "title", "year"} =>
                response.movies = SessionMovies(before))

---------------------------------------------------------------------------
(* The search and genre pages. *)

IsSearch == request.route = "/search"
IsGenre == request.route = "/genre"

\* the result list an answer carries: none when the call failed or the
\* answer has no results
Results(outcome) ==
    IF outcome.kind = "ok" /\ Has(outcome.body, "results")
    THEN outcome.body.results ELSE <<>>

AllSpaces(t) == \A i \in 1..Len(t) : t[i] = " "

(* C8: a search whose first call, made with the refined terms, finds       *)
(* nothing and whose refined terms differ from the query issues exactly    *)
(* one more search call, with the query itself, and shows that call's      *)
(* results; every other search issues no second call.                      *)
C8_OneFallback ==
    IsSearch =>
        IF strip(request.q) = <<>>
        THEN tmdb_calls = <<>>
        ELSE /\ Len(tmdb_calls) >= 1
             /\ tmdb_calls[1].path = "/search/movie"
             /\ IF Results(upstream[1]) = <<>>
                   /\ tmdb_calls[1].params.query # strip(request.q)
                THEN /\ Len(tmdb_calls) = 2
                     /\ tmdb_calls[2].path = "/search/movie"
                     /\ tmdb_calls[2].params.query = strip(request.q)
                     /\ response.kind = "render"
                     /\ IsPermutation(response.movies, Results(upstream[2]))
                     /\ (request.sort = "popularity.desc" =>
                             response.movies = Results(upstream[2]))
                ELSE /\ Len(tmdb_calls) = 1
                     /\ IsPermutation(response.movies, Results(upstream[1]))

C8_Witness ==
    /\ IsSearch /\ Len(tmdb_calls) = 2
    /\ Len(response.movies) = 2
    /\ response.movies # Results(upstream[2])

(* C9: when the text-generation client returns nothing (no client, a       *)
(* failed call) or an empty text for the refinement prompt, the search     *)
(* uses the query unchanged: exactly one search call, with the query, and  *)
(* no fallback call even when it finds nothing.                            *)
C9_AbsentRefinement ==
    (/\ IsSearch /\ strip(request.q) # <<>>
     /\ (claude.kind # "text" \/ AllSpaces(claude.text))) =>
        /\ Len(tmdb_calls) = 1
        /\ tmdb_calls[1].path = "/search/movie"
        /\ tmdb_calls[1].params.query = strip(request.q)
        /\ response.kind = "render"
        /\ response.refined = strip(request.q)

C9_Witness ==
    /\ IsSearch /\ strip(request.q) # <<>>
    /\ claude.kind = "text" /\ claude.text # <<>> /\ AllSpaces(claude.text)
    /\ Results(upstream[1]) = <<>>
    /\ Len(tmdb_calls) = 1

(* C10: for a genre name that is not one of the 18 keys of the genre       *)
(* table, the genre page redirects to home and issues no metadata call and *)
(* no text-generation call.                                                *)
C10_UnknownGenre ==
    /\ Cardinality(DOMAIN GENRES) = 18
    /\ (IsGenre /\ request.genre_name \notin DOMAIN GENRES) =>
           /\ response = Redirect("/")
           /\ tmdb_calls = <<>>
           /\ claude_calls = 0

C10_Witness ==
    /\ IsGenre /\ request.genre_name = "Noir"
    /\ response.kind = "redirect"

---------------------------------------------------------------------------
(* The listing pages. *)

IsMood == request.route = "/mood/<mood_name>"
IsLanguage == request.route = "/language/<lang_name>"
IsDecade == request.route = "/decade/<decade>"
IsTrivia == request.route = "/trivia"

(* C11: on the mood, language and decade pages an identifier outside the   *)
(* fixed set (10 moods, 10 languages, the decades 1950 to 2020) is         *)
(* answered with a redirect to home.  The language and decade pages do it; *)
(* the mood page takes the genres of an unknown mood to be Action and      *)
(* renders that listing.                                                   *)
C11_UnknownIdentifier ==
    /\ Cardinality(DOMAIN MOOD_GENRES) = 10
    /\ Cardinality(DOMAIN LANGUAGES) = 10
    /\ Range(valid_decades) = {1950 + 10 * i : i \in 0..7}
    /\ (\/ IsMood /\ lower(request.mood_name) \notin DOMAIN MOOD_GENRES
        \/ IsLanguage /\ request.lang_name \notin DOMAIN LANGUAGES
        \/ IsDecade /\ request.decade \notin Range(valid_decades)) =>
           /\ response = Redirect("/")
           /\ tmdb_calls = <<>>

(* C12: whatever the mood name and the result list the metadata API        *)
(* answers with, the mood page shows min(12, length of that list) movies,  *)
(* each of them a movie of that list and none more often than the list     *)
(* holds it.                                                               *)
C12_MoodAtMost12 ==
    IsMood =>
        LET found == Results(upstream[1])
            shown == response.movies
        IN  /\ response.kind = "render"
            /\ Len(shown) <= 12
            /\ Len(shown) = Min(12, Len(found))
            /\ \A x \in Range(shown) :
                   x \in Range(found) /\ Count(shown, x) <= Count(found, x)

C12_Witness ==
    /\ IsMood
    /\ Len(Results(upstream[1])) = 13
    /\ Len(response.movies) = 12
    /\ response.movies # Take(Results(upstream[1]), 12)

\* the cap of the page count on the paginated pages
PageCap ==
    CASE request.route \in {"/genre", "/top-rated", "/popular"} -> 10
      [] request.route \in {"/now-playing", "/upcoming"} -> 5
      [] OTHER -> 0

\* the page count the metadata API reported: 1 when it reported none
Reported(outcome) ==
    IF outcome.kind = "ok" /\ Has(outcome.body, "total_pages")
    THEN outcome.body.total_pages ELSE 1

(* C13: whatever page is asked for and whatever page count the metadata    *)
(* API reports, the page count handed to the view is at most 10 on the     *)
(* genre, top-rated and popular pages and at most 5 on the now-playing and *)
(* upcoming pages, and it is the reported count when that is within the    *)
(* cap (1 when none is reported).                                          *)
C13_PageCap ==
    (PageCap > 0 /\ response.kind = "render") =>
        /\ response.total_pages <= PageCap
        /\ (Reported(upstream[1]) <= PageCap =>
                response.total_pages = Reported(upstream[1]))
        /\ (Reported(upstream[1]) > PageCap => response.total_pages = PageCap)

C13_Witness ==
    /\ request.route = "/now-playing" /\ request.page = 50
    /\ Reported(upstream[1]) = 6
    /\ response.total_pages = 5

\* every metadata call of the request failed
Unavailable ==
    upstream # <<>> /\ \A i \in 1..Len(upstream) : upstream[i].kind # "ok"

\* the pages that fetch a list of movies
ListRoutes ==
    {"/", "/search", "/genre", "/mood/<mood_name>", "/language/<lang_name>",
     "/decade/<decade>", "/top-rated", "/now-playing", "/upcoming", "/popular",
     "/trivia"}

(* C14: when every metadata call fails, each page that fetches a list of   *)
(* movies (home, search, genre, mood, language, decade, top-rated,         *)
(* now-playing, upcoming, popular, trivia) renders its own view with no    *)
(* item and no error.  The trivia page renders the error view, with the    *)
(* message 'Could not load trivia.'.                                       *)
C14_UnavailableIsEmpty ==
    (request.route \in ListRoutes /\ Unavailable) =>
        /\ response.kind = "render"
        /\ response.template # "error.html"
        /\ response.error = ""
        /\ response.movies = <<>>

---------------------------------------------------------------------------
(* The detail pages and the JSON routes. *)

IsDetail == request.route = "/movie/<movie_id>"
IsActor == request.route = "/actor/<person_id>"
IsApiReview == request.route = "/api/review"
IsApiTrivia == request.route = "/api/trivia"

\* the first call was answered with a record that has no id
AnsweredWithoutId ==
    upstream # <<>> /\ upstream[1].kind = "ok" /\ ~Has(upstream[1].body, "id")

(* C15: the movie page reports 'not found' only when the metadata API      *)
(* answered the primary fetch with a record without id; a primary fetch    *)
(* that failed (connection error, timeout, HTTP error) is answered         *)
(* otherwise.  tmdb_get turns every failure into {}, which has no id, so   *)
(* the page answers a failed fetch with 'Movie not found.' too.            *)
C15_NotFoundOnlyWithoutId ==
    (IsDetail /\ response.error = "Movie not found.") => AnsweredWithoutId

\* text generation without a client, and with an answer
Absent == [kind |-> "not_configured", text |-> <<>>]
SomeText == [kind |-> "text", text |-> <<"a">>]

\* the response to the last request had text generation given ai, the
\* metadata answers and the random choices being what they were
Replay(ai) ==
    CASE IsDetail ->
           movie_detail(before, request.movie_id, upstream[1], upstream[2],
                        upstream[3], upstream[4], ai, ai).response
      [] IsActor -> actor_detail(before, request.person_id, upstream[1], ai).response
      [] IsMood -> mood_movies(before, request.mood_name, upstream[1], random, ai).response
      [] IsTrivia ->
           trivia_page(before, upstream[1],
                       IF random = <<>> THEN 0 ELSE random[1], ai).response
      [] IsApiReview -> api_review(before, request.movie_id, upstream[1], ai).response
      [] IsApiTrivia -> api_trivia(before, request.movie_id, upstream[1], ai).response

\* a response but for its generated texts
WithoutAi(resp) == [resp EXCEPT !.ai = EmptyObject]

(* C16: on the movie, person, mood and trivia pages and the review and     *)
(* trivia JSON routes, text generation decides the generated texts only:   *)
(* with the same metadata answers, the response is the same in status,     *)
(* view and every other datum whether text generation is absent or gives a *)
(* text, and no request that asked for a text is answered with an error.   *)
C16_EnrichmentOnly ==
    (IsDetail \/ IsActor \/ IsMood \/ IsTrivia \/ IsApiReview \/ IsApiTrivia) =>
        /\ WithoutAi(response) = WithoutAi(Replay(Absent))
        /\ WithoutAi(response) = WithoutAi(Replay(SomeText))
        /\ (claude # NoClaude =>
                /\ response.status = 200
                /\ response.template # "error.html"
                /\ response.error = "")

C16_Witness ==
    /\ IsDetail /\ response.template = "movie.html"
    /\ claude.review.kind = "text" /\ claude.review.text = <<"a">>
    /\ claude.fact.kind = "APIStatusError"
    /\ response.ai.ai_review.text = <<"a">>
    /\ response.ai.ai_fun_fact.absent

\* the JSON routes
ApiNames ==
    {"/api/watchlist", "/api/movie", "/api/search", "/api/review", "/api/trivia",
     "/api/trending", "/api/recommendations", "/api/similar", "/api/actor",
     "/api/genre"}

(* C17: a failure raised in a page route that is not a JSON route, the     *)
(* watchlist add, remove, view and clear routes included, is caught in the *)
(* route and answered with the error view carrying the failure's message.  *)
(* The watchlist routes have no except clause: a failure leaves the        *)
(* handler and is answered by the 500 handler with its fixed message.      *)
C17_CaughtInRoute ==
    (request.route \notin ApiNames) =>
        /\ response.kind # "error"
        /\ response.status # 500
        /\ response.raised = ""

\* the JSON routes that answer 404 for a record without id
RecordApis == {"/api/movie", "/api/review", "/api/trivia", "/api/actor"}

\* the first call gave no record with an id
NoIdFetched ==
    upstream # <<>> /\ ~(upstream[1].kind = "ok" /\ Has(upstream[1].body, "id"))

(* C18: a JSON route reports an error as an object holding one message:    *)
(* with status 404 exactly when the genre name is no key of the genre      *)
(* table (message 'Genre not found', no call made) or the fetched movie or *)
(* person record has no id, and with status 400 exactly when /api/search   *)
(* is asked with a q that is missing or empty once stripped (no call       *)
(* made); every other answer has status 200 and no error.                  *)
C18_ApiErrors ==
    (request.route \in ApiNames) =>
        /\ response.kind = "json"
        /\ response.status \in {200, 400, 404}
        /\ (response.status = 404 <=>
                \/ request.route = "/api/genre" /\ request.genre_name \notin DOMAIN GENRES
                \/ request.route \in RecordApis /\ NoIdFetched)
        /\ (response.status = 400 <=>
                request.route = "/api/search" /\ strip(request.q) = <<>>)
        /\ (response.status = 400 => tmdb_calls = <<>>)
        /\ ((response.status = 404 /\ request.route = "/api/genre") =>
                response.error = "Genre not found" /\ tmdb_calls = <<>>)
        /\ (response.status # 200 =>
                /\ response.error # ""
                /\ response.data = EmptyObject
                /\ response.ai = EmptyObject)
        /\ (response.status = 200 => response.error = "")

C18_Witness ==
    /\ request.route = "/api/search"
    /\ request.q = <<" ">>
    /\ response.status = 400
    /\ response.error = "No query provided"

\* the places of videos that hold a YouTube video of the type
Places(videos, type) == {i \in 1..Len(videos) : IsYouTube(videos[i], type)}

\* the places of videos that hold a YouTube video
YouTubePlaces(videos) == {i \in 1..Len(videos) : OnYouTube(videos[i])}

\* the least place of a non-empty set of places
First(places) == CHOOSE i \in places : \A j \in places : i <= j

\* the k-th place of a set of places
Kth(places, k) == CHOOSE i \in places : Cardinality({j \in places : j < i}) = k - 1

(* C19: on the movie page the trailer is the first video, in the order of  *)
(* the answer, of type Trailer on YouTube; the teaser is the first video   *)
(* of type Teaser on YouTube when there is no such trailer and is absent   *)
(* when there is, so the two are never both there; the clips are the first *)
(* 5 YouTube videos, or all of them when there are fewer.                  *)
C19_VideoSelection ==
    (IsDetail /\ response.template = "movie.html") =>
        LET videos   == Results(upstream[2])
            trailers == Places(videos, "Trailer")
            teasers  == Places(videos, "Teaser")
            youtube  == YouTubePlaces(videos)
            d        == response.data
        IN  /\ d.trailer = IF trailers = {} THEN <<>> ELSE <<videos[First(trailers)]>>
            /\ d.teaser = IF trailers = {} /\ teasers # {}
                          THEN <<videos[First(teasers)]>> ELSE <<>>
            /\ ~(d.trailer # <<>> /\ d.teaser # <<>>)
            /\ Len(d.clips) = Min(5, Cardinality(youtube))
            /\ \A k \in 1..Len(d.clips) : d.clips[k] = videos[Kth(youtube, k)]

C19_Witness ==
    /\ IsDetail /\ response.template = "movie.html"
    /\ Len(Results(upstream[2])) = 7
    /\ IsYouTube(Results(upstream[2])[1], "Teaser")
    /\ response.data.trailer # <<>> /\ response.data.trailer[1].key = 2
    /\ response.data.teaser = <<>>
    /\ Len(response.data.clips) = 5

\* the routes that change the watchlist
WatchlistWriters == {"/watchlist/add", "/watchlist/remove", "/watchlist/clear"}

(* C20: only the watchlist add, remove and clear routes change the         *)
(* session: after a request to any other route (home, search, the          *)
(* listings, the movie and person pages, the watchlist view, the JSON      *)
(* routes) the stored id list and entry list are what they were, whatever  *)
(* the metadata API and text generation answered.                          *)
C20_OnlyWritersWrite ==
    (request.route # "" /\ request.route \notin WatchlistWriters) =>
        /\ session = before
        /\ SessionIds(session) = SessionIds(before)
        /\ SessionMovies(session) = SessionMovies(before)

C20_Witness ==
    /\ IsDetail /\ response.template = "movie.html"
    /\ Len(SessionIds(before)) = 2
    /\ response.data.in_watchlist
    /\ response.watchlist_ids = SessionIds(session)

(* C21: a search sends its year and language filters, when given, with the *)
(* first call only, the one made with the refined terms; the fallback call *)
(* carries the query and no filter, so whenever the fallback is taken the  *)
(* movies shown are the results of the unfiltered search for the query.    *)
C21_FallbackUnfiltered ==
    (IsSearch /\ tmdb_calls # <<>>) =>
        /\ tmdb_calls[1].params.year = strip(request.year)
        /\ tmdb_calls[1].params.language = strip(request.lang)
        /\ (Len(tmdb_calls) = 2 =>
                /\ tmdb_calls[2] = Call("/search/movie",
                                        [query |-> strip(request.q), year |-> <<>>,
                                         language |-> <<>>])
                /\ IsPermutation(response.movies, Results(upstream[2]))
                /\ (request.sort = "popularity.desc" =>
                        response.movies = Results(upstream[2])))

C21_Witness ==
    /\ IsSearch /\ Len(tmdb_calls) = 2
    /\ tmdb_calls[1].params.year # <<>> /\ tmdb_calls[1].params.language # <<>>
    /\ tmdb_calls[2].params.year = <<>>
    /\ Results(upstream[2]) # <<>>
    /\ response.movies # <<>>

====
